---- MODULE Spec2Model ----
(***************************************************************************)
(* Daily attempt settlement of the color game API: the submitScore,        *)
(* useItem and resetUserDailyAttempts handlers running as concurrent       *)
(* requests over the tables daily_scores, daily_leaderboard,               *)
(* daily_attempt_modifiers, friend_activity, user_inventory and users.     *)
(* Every database call of a handler is one atomic step; the steps of       *)
(* different requests interleave freely.                                    *)
(***************************************************************************)
EXTENDS Integers, Sequences, FiniteSets, TLC

\* ------------------------------------------------------------------ bounds
MaxSubmits == 2
MaxSeqSubmits == 5
MaxResets == 1
MaxFaults == 1
MaxAccountOps == 1
MaxGenerates == 3
MaxRuns == 3
InitQuantity == 1

\* ------------------------------------------------------- program constants
BaseAttempts == 5
HardCap == 10
MilestonePoints == 1000
MaxAttemptNumberCheck == 10
MaxScoreCheck == 100
LeaderboardLimit == 100

\* ----------------------------------------------------------------- domains
Users == {"u1", "u2"}
Workers == {"w1", "w2"}
\* the request handlers, the goroutine of the daily-color scheduler and the
\* goroutine that owns the Scheduler and may call Stop
Processes == Workers \cup {"scheduler", "main"}
InventoryIDs == {1, 2}
\* the users that respond to friend requests, and the friendships table:
\* u1 asked u2
Responders == {"u1", "u2", "u3"}
InitFriendships == [id \in {1} |-> [requester_id |-> "u1", addressee_id |-> "u2",
                                    status |-> "pending"]]
\* the friendshipId and action values of the requests (0: no friendshipId)
FriendshipIDs == {0, 1, 2}
FriendActions == {"accept", "decline", "block"}

\* the versions of the files of the migrations directory, as os.ReadDir
\* lists them (sorted by filename)
MigrationFiles == <<1, 2, 3, 4, 7>>
MigrationVersions == {MigrationFiles[i] : i \in 1..Len(MigrationFiles)}

NoRow == [absent |-> TRUE]
NoColor == <<>>

\* the colors a client submits in the concurrent specification; the last one
\* is outside the byte range
Palette == {<<13, 13, 13>>, <<0, 0, 0>>, <<300, 0, 0>>}
\* the colors of the sequential scenario: against the target <<0,0,0>> they
\* score 40, 95, 10 and 60
ScenarioPalette == {<<153, 153, 153>>, <<13, 13, 13>>, <<229, 229, 229>>, <<102, 102, 102>>}
TargetColor == <<0, 0, 0>>

\* username stands for the profile fields username and email
InitUser == [points |-> 950, level |-> 1, credits |-> 100, username |-> "alice"]

\* shop_items of the catalogue: credit_cost, and of the metadata the
\* effect_type and the raw extra_attempts value (0 stands for a missing or
\* non-positive value)
shop_items ==
  [extra_scan |-> [credit_cost |-> 100, effect_type |-> "extra_attempt", extra_attempts |-> 1],
   mega_scan  |-> [credit_cost |-> 400, effect_type |-> "extra_attempt", extra_attempts |-> 5],
   badge      |-> [credit_cost |-> 50, effect_type |-> "none", extra_attempts |-> 0]]

\* the amounts an admin adds with addUserCredits, and the new usernames
\* updateCurrentUser is asked to store
CreditAmounts == {50}
Usernames == {"bob"}

\* ----------------------------------------------------------- pure helpers
Min(a, b) == IF a < b THEN a ELSE b

Max(a, b) == IF a > b THEN a ELSE b

Sq(x) == x * x

\* math.Round((1 - distance/441.67) * 100) >= s, for distance = sqrt(d2):
\* 20000 * distance <= 44167 * (201 - 2s), squared and split in two words
\* so that every intermediate value stays below 2^31
RoundAtLeast(d2, s) ==
  LET B == 44167 * (201 - 2 * s)
      u == B \div 20000
      v == B % 20000
  IN  /\ B >= 0
      /\ 10000 * (d2 - Sq(u)) <= u * v + (Sq(v) \div 40000)

\* the score normalised by the range of one channel, without the bounds
calculateColorScorePerChannel(target, submitted) ==
  LET dist == Max(target[1] - submitted[1], submitted[1] - target[1])
                + Max(target[2] - submitted[2], submitted[2] - target[2])
                + Max(target[3] - submitted[3], submitted[3] - target[3])
  IN  100 - ((100 * dist) \div 255)

\* the score of the distance in the red and green channels only
calculateColorScoreNoBlue(target, submitted) ==
  LET d2 == Sq(target[1] - submitted[1]) + Sq(target[2] - submitted[2])
      rounded == CHOOSE s \in 0..101 :
                   /\ RoundAtLeast(d2, s)
                   /\ \A t \in (s + 1)..101 : ~RoundAtLeast(d2, t)
  IN  IF rounded < 0 THEN 0 ELSE IF rounded > 100 THEN 100 ELSE rounded

\* the score of a distance that counts only the channels where the
\* submitted color is below the target
calculateColorScoreOneSided(target, submitted) ==
  LET d2 == Sq(Max(target[1] - submitted[1], 0)) + Sq(Max(target[2] - submitted[2], 0))
              + Sq(Max(target[3] - submitted[3], 0))
      rounded == CHOOSE s \in 0..101 :
                   /\ RoundAtLeast(d2, s)
                   /\ \A t \in (s + 1)..101 : ~RoundAtLeast(d2, t)
  IN  IF rounded < 0 THEN 0 ELSE IF rounded > 100 THEN 100 ELSE rounded

calculateColorScore(target, submitted) ==
  LET d2 == Sq(target[1] - submitted[1]) + Sq(target[2] - submitted[2])
              + Sq(target[3] - submitted[3])
      rounded == CHOOSE s \in 0..101 :
                   /\ RoundAtLeast(d2, s)
                   /\ \A t \in (s + 1)..101 : ~RoundAtLeast(d2, t)
  IN  IF rounded < 0 THEN 0 ELSE IF rounded > 100 THEN 100 ELSE rounded

ValidRGB(rgb) == \A i \in 1..3 : rgb[i] >= 0 /\ rgb[i] <= 255

\* the cap without its ceiling
CapOfUnclamped(extraAttempts) == BaseAttempts + extraAttempts

\* maxAttempts := 5 + extraAttempts; if maxAttempts > 10 { maxAttempts = 10 }
CapOf(extraAttempts) ==
  IF BaseAttempts + extraAttempts > HardCap THEN HardCap
  ELSE BaseAttempts + extraAttempts

\* the limit check off by one
AttemptLimitReachedLate(attemptCount, maxAttempts) == attemptCount > maxAttempts

\* if attemptCount >= maxAttempts { http.Error(..., 400); return }
AttemptLimitReached(attemptCount, maxAttempts) == attemptCount >= maxAttempts

\* the extra attempts one use of an item grants: the metadata value when it
\* is positive, 1 otherwise
ExtraAttemptsOf(meta) ==
  IF meta.extra_attempts > 0 THEN meta.extra_attempts ELSE 1

\* ------------------------------------------------------------------- state
VARIABLES
  users,                    \* users: user_id -> points, level, credits, username
  daily_color,              \* daily_color rows of today's date (NoColor: none)
  daily_scores,             \* daily_scores of today: user_id -> rows in insertion order
  daily_leaderboard,        \* daily_leaderboard of today: user_id -> row or NoRow
  daily_attempt_modifiers,  \* daily_attempt_modifiers of today: user_id -> row or NoRow
  friend_activity,          \* friend_activity of today: user_id -> row or NoRow
  user_inventory,           \* user_inventory: inventory_id -> row
  schema,                   \* version -> number of times its SQL was committed
  schema_migrations,        \* schema_migrations: the versions recorded
  friendships,              \* friendships: friendship_id -> requester, addressee, status
  ticker,                   \* Scheduler.ticker: "nil", "running" or "stopped"
  pc,                       \* position of the request each worker is handling
  req,                      \* local variables of that request
  hist                      \* history of the run (not program state)

db == <<users, daily_color, daily_scores, daily_leaderboard,
        daily_attempt_modifiers, friend_activity, user_inventory,
        schema, schema_migrations, friendships>>

vars == <<users, daily_color, daily_scores, daily_leaderboard,
          daily_attempt_modifiers, friend_activity, user_inventory,
          schema, schema_migrations, friendships, ticker, pc, req, hist>>

EmptyReq ==
  [handler |-> "none", user_id |-> "none", user |-> [points |-> 0, level |-> 0, credits |-> 0, username |-> "none"],
   submitted |-> <<0, 0, 0>>, target |-> <<0, 0, 0>>,
   attemptCount |-> 0, extraAttempts |-> 0, maxAttempts |-> 0, score |-> 0,
   attemptNumber |-> 0, isNewBest |-> FALSE, bestScore |-> 0, bestAttemptsUsed |-> 0,
   attemptsLeft |-> 0, inventory_id |-> 0, item_id |-> "none", quantityLeft |-> 0,
   total_extra_attempts |-> 0, max_attempts |-> 0,
   credits |-> 0, totalCost |-> 0, username |-> "none",
   limit |-> 0, leaderboard |-> <<>>,
   migrations |-> <<>>, appliedMigrations |-> {}, index |-> 0,
   attempts |-> <<>>, friendshipID |-> 0, newStatus |-> "none"]

\* The database outlives the process: when the server starts, today's tables
\* are empty, or hold what u1's four earlier submissions of today (scores 40,
\* 95, 95 and 10, made one after the other) have left.
ScoreRow(n, submitted) ==
  [attempt_number |-> n, score |-> calculateColorScore(TargetColor, submitted),
   submitted |-> submitted, target |-> TargetColor]

EarlierScores ==
  <<ScoreRow(1, <<153, 153, 153>>), ScoreRow(2, <<13, 13, 13>>),
    ScoreRow(3, <<13, 13, 13>>), ScoreRow(4, <<229, 229, 229>>)>>

EarlierBest == [best_score |-> EarlierScores[2].score, attempts_used |-> 2]

Init ==
  /\ users = [u \in Users |-> InitUser]
  /\ \E color \in {NoColor, TargetColor}, earlier \in BOOLEAN :
        /\ earlier => color # NoColor
        /\ daily_color = IF color = NoColor THEN NoColor ELSE <<color>>
        /\ daily_scores = [u \in Users |-> IF earlier /\ u = "u1" THEN EarlierScores ELSE <<>>]
        /\ daily_leaderboard = [u \in Users |-> IF earlier /\ u = "u1" THEN EarlierBest ELSE NoRow]
        /\ friend_activity = [u \in Users |-> IF earlier /\ u = "u1" THEN EarlierBest ELSE NoRow]
        /\ hist = [submits |-> 0, faults |-> 0,
                   earlier |-> [u \in Users |-> IF earlier /\ u = "u1" THEN 4 ELSE 0],
                   gate |-> [u \in Users |-> 0],
                   settled |-> [u \in Users |-> 0],
                   granted |-> [u \in Users |-> 0],
                   reset_of |-> [u \in Users |-> 0],
                   settle_fault |-> [u \in Users |-> "none"],
                   raced |-> [u \in Users |-> FALSE],
                   awarded |-> [u \in Users |-> [points |-> 0, credits |-> 0]],
                   credit_delta |-> [u \in Users |-> 0],
                   ops |-> [credit |-> 0, purchase |-> 0, profile |-> 0, history |-> 0],
                   generates |-> 0]
  /\ daily_attempt_modifiers = [u \in Users |-> NoRow]
  /\ user_inventory =
       [i \in InventoryIDs |->
          IF i = 1
          THEN [user_id |-> "u1", item_id |-> "extra_scan", quantity |-> InitQuantity, used_count |-> 0]
          ELSE [user_id |-> "u1", item_id |-> "mega_scan", quantity |-> InitQuantity, used_count |-> 0]]
  /\ schema = [v \in MigrationVersions |-> 1]
  /\ schema_migrations = MigrationVersions
  /\ friendships = InitFriendships
  /\ ticker = "nil"
  /\ pc = [p \in Processes |-> "idle"]
  /\ req = [p \in Processes |-> EmptyReq]

RECURSIVE SumOver(_, _)
SumOver(f, S) ==
  IF S = {} THEN 0
  ELSE LET x == CHOOSE y \in S : TRUE IN f[x] + SumOver(f, S \ {x})

ResetsSoFar == SumOver(hist.reset_of, Users)

\* a request ends: the handler writes its response and returns, which frees
\* its local variables; the worker keeps the outcome of the response
Outcomes == {"idle", "ok", "limit", "bad_request", "forbidden", "error"}

Finish(w, r, outcome) ==
  /\ req' = [req EXCEPT ![w] = EmptyReq]
  /\ pc' = [pc EXCEPT ![w] = outcome]

Goto(w, r, label) ==
  /\ req' = [req EXCEPT ![w] = r]
  /\ pc' = [pc EXCEPT ![w] = label]

\* a submitScore request of user u is being served
SubmitInFlight(u) ==
  \E w \in Workers : /\ pc[w] \notin Outcomes
                     /\ req[w].handler = "submitScore"
                     /\ req[w].user_id = u

\* a resetUserDailyAttempts request for user u is being served
ResetInProgress(u) ==
  \E w \in Workers : /\ pc[w] \notin Outcomes
                     /\ req[w].handler = "resetUserDailyAttempts"
                     /\ req[w].user_id = u

\* ------------------------------------------------------------- submitScore
\* submitScore without the validation of the RGB values
SubmitBeginNoValidation(w, u, rgb, limit) ==
  /\ pc[w] \in Outcomes
  /\ hist.submits < limit
  /\ hist' = [hist EXCEPT !.submits = @ + 1,
                          !.settle_fault[u] = IF @ = "failed" THEN "retried" ELSE @,
                          !.raced[u] = @ \/ ResetInProgress(u)]
  /\ Goto(w, [EmptyReq EXCEPT !.handler = "submitScore", !.user_id = u,
                              !.user = users[u], !.submitted = rgb], "sub_today")
  /\ UNCHANGED <<db, ticker>>

\* getUserFromToken, then the validation of the submitted RGB values
SubmitBegin(w, u, rgb, limit) ==
  /\ pc[w] \in Outcomes
  /\ hist.submits < limit
  /\ hist' = [hist EXCEPT !.submits = @ + 1,
                          !.settle_fault[u] = IF @ = "failed" THEN "retried" ELSE @,
                          !.raced[u] = @ \/ ResetInProgress(u)]
  /\ LET r == [EmptyReq EXCEPT !.handler = "submitScore", !.user_id = u,
                               !.user = users[u], !.submitted = rgb]
     IN  IF ValidRGB(rgb) THEN Goto(w, r, "sub_today")
         ELSE Finish(w, r, "bad_request")
  /\ UNCHANGED <<db, ticker>>

SubmitGetTodayProceeds(w) ==
  /\ pc[w] = "sub_today"
  /\ Goto(w, [req[w] EXCEPT !.target = IF daily_color = NoColor THEN <<0, 0, 0>>
                                        ELSE daily_color[1]], "sub_count")
  /\ UNCHANGED <<db, ticker, hist>>

\* DailyColorRepo.GetToday
SubmitGetToday(w) ==
  /\ pc[w] = "sub_today"
  /\ IF daily_color = NoColor
     THEN Finish(w, req[w], "error")
     ELSE Goto(w, [req[w] EXCEPT !.target = daily_color[1]], "sub_count")
  /\ UNCHANGED <<db, ticker, hist>>

\* DailyScoreRepo.GetUserAttemptCount
SubmitGetUserAttemptCount(w) ==
  /\ pc[w] = "sub_count"
  /\ LET u == req[w].user_id
     IN  /\ Goto(w, [req[w] EXCEPT !.attemptCount = Len(daily_scores[u])], "sub_modifier")
         /\ hist' = [hist EXCEPT !.gate[u] = @ + 1]
  /\ UNCHANGED <<db, ticker>>

\* DailyScoreRepo.GetDailyAttemptModifier, the cap and the limit check, then
\* the score of the submission
SubmitGetDailyAttemptModifier(w) ==
  /\ pc[w] = "sub_modifier"
  /\ LET u == req[w].user_id
         extraAttempts == IF daily_attempt_modifiers[u] = NoRow THEN 0
                          ELSE daily_attempt_modifiers[u].extra_attempts
         maxAttempts == CapOf(extraAttempts)
         r == [req[w] EXCEPT !.extraAttempts = extraAttempts, !.maxAttempts = maxAttempts]
     IN  IF AttemptLimitReached(r.attemptCount, maxAttempts)
         THEN Finish(w, r, "limit")
         ELSE Goto(w, [r EXCEPT !.score = calculateColorScore(r.target, r.submitted)],
                   "sub_create")
  /\ UNCHANGED <<db, ticker, hist>>

\* daily_scores without its UNIQUE constraint
ScoreRowAcceptedNoUnique(rows, row) ==
  /\ row.attempt_number >= 1 /\ row.attempt_number <= MaxAttemptNumberCheck
  /\ row.score >= 0 /\ row.score <= MaxScoreCheck

\* daily_scores with a UNIQUE constraint that leaves out user_id
ScoreRowAcceptedAnyUser(rows, row) ==
  /\ \A u \in DOMAIN daily_scores : \A i \in 1..Len(daily_scores[u]) :
        daily_scores[u][i].attempt_number # row.attempt_number
  /\ row.attempt_number >= 1 /\ row.attempt_number <= MaxAttemptNumberCheck
  /\ row.score >= 0 /\ row.score <= MaxScoreCheck

\* the constraints of daily_scores: UNIQUE(user_id, date, attempt_number) and
\* the CHECKs on attempt_number and score
ScoreRowAccepted(rows, row) ==
  /\ \A i \in 1..Len(rows) : rows[i].attempt_number # row.attempt_number
  /\ row.attempt_number >= 1 /\ row.attempt_number <= MaxAttemptNumberCheck
  /\ row.score >= 0 /\ row.score <= MaxScoreCheck

\* an insert that fails and still leaves its row
SubmitCreatePartial(w) ==
  /\ pc[w] = "sub_create"
  /\ LET u == req[w].user_id
         row == [attempt_number |-> req[w].attemptCount + 1, score |-> req[w].score,
                 submitted |-> req[w].submitted, target |-> req[w].target]
     IN  /\ daily_scores' = [daily_scores EXCEPT ![u] = Append(@, row)]
         /\ IF ScoreRowAccepted(daily_scores[u], row)
            THEN Goto(w, [req[w] EXCEPT !.attemptNumber = row.attempt_number], "sub_getlb")
            ELSE Finish(w, req[w], "error")
  /\ UNCHANGED <<users, daily_color, schema, schema_migrations, friendships, ticker, daily_leaderboard, daily_attempt_modifiers,
                 friend_activity, user_inventory, hist>>

\* DailyScoreRepo.Create
SubmitCreate(w) ==
  /\ pc[w] = "sub_create"
  /\ LET u == req[w].user_id
         row == [attempt_number |-> req[w].attemptCount + 1, score |-> req[w].score,
                 submitted |-> req[w].submitted, target |-> req[w].target]
     IN  IF ScoreRowAccepted(daily_scores[u], row)
         THEN /\ daily_scores' = [daily_scores EXCEPT ![u] = Append(@, row)]
              /\ Goto(w, [req[w] EXCEPT !.attemptNumber = row.attempt_number], "sub_getlb")
         ELSE /\ Finish(w, req[w], "error")
              /\ UNCHANGED daily_scores
  /\ UNCHANGED <<users, daily_color, schema, schema_migrations, friendships, ticker, daily_leaderboard, daily_attempt_modifiers,
                 friend_activity, user_inventory, hist>>

\* a tie counted as a new best
IsNewBestOnTie(hasExistingLeaderboard, score, best_score) ==
  IF ~hasExistingLeaderboard THEN TRUE ELSE score >= best_score

\* isNewBest: no leaderboard entry yet, or a score above its best_score
IsNewBest(hasExistingLeaderboard, score, best_score) ==
  IF ~hasExistingLeaderboard THEN TRUE ELSE score > best_score

\* the best score taken from the submission alone
SubmitGetByUserAndDateOwnScore(w) ==
  /\ pc[w] = "sub_getlb"
  /\ LET u == req[w].user_id
         existing == daily_leaderboard[u]
         hasExistingLeaderboard == existing # NoRow
         isNewBest == IsNewBest(hasExistingLeaderboard, req[w].score,
                                IF hasExistingLeaderboard THEN existing.best_score ELSE 0)
         r == [req[w] EXCEPT !.isNewBest = isNewBest, !.bestScore = req[w].score,
                             !.bestAttemptsUsed = req[w].attemptNumber]
     IN  Goto(w, r, IF isNewBest THEN "sub_upsert" ELSE "sub_friend")
  /\ UNCHANGED <<db, ticker, hist>>

\* DailyLeaderboardRepo.GetByUserAndDate and the choice of the best score
SubmitGetByUserAndDate(w) ==
  /\ pc[w] = "sub_getlb"
  /\ LET u == req[w].user_id
         existing == daily_leaderboard[u]
         hasExistingLeaderboard == existing # NoRow
         isNewBest == IsNewBest(hasExistingLeaderboard, req[w].score,
                                IF hasExistingLeaderboard THEN existing.best_score ELSE 0)
         bestScore == IF hasExistingLeaderboard /\ ~isNewBest THEN existing.best_score
                      ELSE req[w].score
         bestAttemptsUsed == IF hasExistingLeaderboard /\ ~isNewBest THEN existing.attempts_used
                             ELSE req[w].attemptNumber
         r == [req[w] EXCEPT !.isNewBest = isNewBest, !.bestScore = bestScore,
                             !.bestAttemptsUsed = bestAttemptsUsed]
     IN  Goto(w, r, IF isNewBest THEN "sub_upsert" ELSE "sub_friend")
  /\ UNCHANGED <<db, ticker, hist>>

\* DailyLeaderboardRepo.CreateOrUpdate
SubmitCreateOrUpdate(w) ==
  /\ pc[w] = "sub_upsert"
  /\ LET u == req[w].user_id
         entry == [best_score |-> req[w].bestScore, attempts_used |-> req[w].bestAttemptsUsed]
     IN  IF /\ entry.best_score >= 0 /\ entry.best_score <= MaxScoreCheck
            /\ entry.attempts_used >= 1 /\ entry.attempts_used <= MaxAttemptNumberCheck
         THEN /\ daily_leaderboard' = [daily_leaderboard EXCEPT ![u] = entry]
              /\ Goto(w, req[w], "sub_friend")
         ELSE /\ Finish(w, req[w], "error")
              /\ UNCHANGED daily_leaderboard
  /\ UNCHANGED <<users, daily_color, schema, schema_migrations, friendships, ticker, daily_scores, daily_attempt_modifiers,
                 friend_activity, user_inventory, hist>>

\* the settlement entered with one attempt left as well
SubmitRecordFriendActivityEarly(w) ==
  /\ pc[w] = "sub_friend"
  /\ LET u == req[w].user_id
         r == [req[w] EXCEPT !.attemptsLeft = req[w].maxAttempts - req[w].attemptNumber]
     IN  /\ friend_activity' = [friend_activity EXCEPT ![u] =
               [best_score |-> req[w].bestScore, attempts_used |-> req[w].bestAttemptsUsed]]
         /\ IF r.attemptsLeft <= 1 THEN Goto(w, r, "sub_settle") ELSE Finish(w, r, "ok")
  /\ UNCHANGED <<users, daily_color, schema, schema_migrations, friendships, ticker, daily_scores, daily_leaderboard,
                 daily_attempt_modifiers, user_inventory, hist>>

\* FriendRepo.RecordFriendActivity, then attemptsLeft
SubmitRecordFriendActivity(w) ==
  /\ pc[w] = "sub_friend"
  /\ LET u == req[w].user_id
         r == [req[w] EXCEPT !.attemptsLeft = req[w].maxAttempts - req[w].attemptNumber]
     IN  /\ friend_activity' = [friend_activity EXCEPT ![u] =
               [best_score |-> req[w].bestScore, attempts_used |-> req[w].bestAttemptsUsed]]
         /\ IF r.attemptsLeft = 0 THEN Goto(w, r, "sub_settle") ELSE Finish(w, r, "ok")
  /\ UNCHANGED <<users, daily_color, schema, schema_migrations, friendships, ticker, daily_scores, daily_leaderboard,
                 daily_attempt_modifiers, user_inventory, hist>>

\* the daily reward with the credits rounded down
SettledHalfDown(user, bestScore) ==
  LET newTotalPoints == user.points + bestScore
      levelUps == (newTotalPoints \div MilestonePoints) - (user.points \div MilestonePoints)
  IN  [user EXCEPT !.points = newTotalPoints, !.level = user.level + levelUps,
                   !.credits = user.credits + (bestScore \div 2)]

\* the daily reward without the level-ups
SettledNoLevel(user, bestScore) ==
  [user EXCEPT !.points = user.points + bestScore,
               !.credits = user.credits + ((bestScore + 1) \div 2)]

\* the daily reward computed on the user read by getUserFromToken
Settled(user, bestScore) ==
  LET pointsAward == bestScore
      newTotalPoints == user.points + pointsAward
      prevMilestones == user.points \div MilestonePoints
      newMilestones == newTotalPoints \div MilestonePoints
      levelUps == IF newMilestones - prevMilestones < 0 THEN 0
                  ELSE newMilestones - prevMilestones
      creditAward == (bestScore + 1) \div 2
  IN  [user EXCEPT !.points = newTotalPoints, !.level = user.level + levelUps,
                   !.credits = user.credits + creditAward]

\* UserRepo.Update of the settlement
SubmitSettle(w) ==
  /\ pc[w] = "sub_settle"
  /\ LET u == req[w].user_id
         user == Settled(req[w].user, req[w].bestScore)
     IN  /\ users' = [users EXCEPT ![u] = user]
         /\ hist' = [hist EXCEPT
                       !.settled[u] = IF user # users[u] THEN @ + 1 ELSE @,
                       !.awarded[u] = [points |-> @.points + user.points - req[w].user.points,
                                       credits |-> @.credits + user.credits - req[w].user.credits]]
         /\ Finish(w, [req[w] EXCEPT !.user = user], "ok")
  /\ UNCHANGED <<daily_color, schema, schema_migrations, friendships, ticker, daily_scores, daily_leaderboard, daily_attempt_modifiers,
                 friend_activity, user_inventory>>

\* ---------------------------------------------------------- addUserCredits
\* UserRepo.Get of the admin's addUserCredits
AddCreditsGet(w, u, credits) ==
  /\ pc[w] \in Outcomes
  /\ hist.ops.credit < MaxAccountOps
  /\ hist' = [hist EXCEPT !.ops.credit = @ + 1]
  /\ IF credits <= 0 THEN Finish(w, EmptyReq, "bad_request")
     ELSE Goto(w, [EmptyReq EXCEPT !.handler = "addUserCredits", !.user_id = u,
                                   !.user = users[u], !.credits = credits], "credit_update")
  /\ UNCHANGED <<db, ticker>>

\* user.Credits += req.Credits; UserRepo.Update(user)
AddCreditsUpdate(w) ==
  /\ pc[w] = "credit_update"
  /\ LET u == req[w].user_id
         user == [req[w].user EXCEPT !.credits = @ + req[w].credits]
     IN  /\ users' = [users EXCEPT ![u] = user]
         /\ hist' = [hist EXCEPT !.credit_delta[u] = @ + req[w].credits]
         /\ Finish(w, req[w], "ok")
  /\ UNCHANGED <<daily_color, schema, schema_migrations, friendships, ticker, daily_scores, daily_leaderboard, daily_attempt_modifiers,
                 friend_activity, user_inventory>>

\* ------------------------------------------------------------ purchaseItem
\* getUserFromToken, ShopRepo.GetItem and the credit check, for a quantity
\* of one
PurchaseBegin(w, u, item_id) ==
  /\ pc[w] \in Outcomes
  /\ hist.ops.purchase < MaxAccountOps
  /\ hist' = [hist EXCEPT !.ops.purchase = @ + 1]
  /\ LET totalCost == shop_items[item_id].credit_cost
         r == [EmptyReq EXCEPT !.handler = "purchaseItem", !.user_id = u, !.user = users[u],
                               !.item_id = item_id, !.totalCost = totalCost]
     IN  IF r.user.credits < totalCost THEN Finish(w, r, "bad_request")
         ELSE Goto(w, r, "buy_update")
  /\ UNCHANGED <<db, ticker>>

\* user.Credits -= totalCost; UserRepo.Update(user)
PurchaseUpdate(w) ==
  /\ pc[w] = "buy_update"
  /\ LET u == req[w].user_id
         user == [req[w].user EXCEPT !.credits = @ - req[w].totalCost]
     IN  /\ users' = [users EXCEPT ![u] = user]
         /\ hist' = [hist EXCEPT !.credit_delta[u] = @ - req[w].totalCost]
         /\ Goto(w, [req[w] EXCEPT !.user = user], "buy_inventory")
  /\ UNCHANGED <<daily_color, schema, schema_migrations, friendships, ticker, daily_scores, daily_leaderboard, daily_attempt_modifiers,
                 friend_activity, user_inventory>>

\* ShopRepo.AddItemToInventory: the upsert adds the quantity to the row of
\* (user_id, item_id); the stock update and the purchase record follow and
\* touch none of the tables of the model
PurchaseAddItemToInventory(w) ==
  /\ pc[w] = "buy_inventory"
  /\ user_inventory' =
       [i \in InventoryIDs |->
          IF /\ user_inventory[i].user_id = req[w].user_id
             /\ user_inventory[i].item_id = req[w].item_id
          THEN [user_inventory[i] EXCEPT !.quantity = @ + 1]
          ELSE user_inventory[i]]
  /\ Finish(w, req[w], "ok")
  /\ UNCHANGED <<users, daily_color, schema, schema_migrations, friendships, ticker, daily_scores, daily_leaderboard,
                 daily_attempt_modifiers, friend_activity, hist>>

\* ------------------------------------------------------- updateCurrentUser
\* getUserFromToken and the decoding of the update request
UpdateCurrentUserBegin(w, u, username) ==
  /\ pc[w] \in Outcomes
  /\ hist.ops.profile < MaxAccountOps
  /\ hist' = [hist EXCEPT !.ops.profile = @ + 1]
  /\ Goto(w, [EmptyReq EXCEPT !.handler = "updateCurrentUser", !.user_id = u,
                              !.user = users[u], !.username = username], "profile_update")
  /\ UNCHANGED <<db, ticker>>

\* currentUser.Username = updateReq.Username; UserRepo.Update(currentUser)
UpdateCurrentUserSave(w) ==
  /\ pc[w] = "profile_update"
  /\ users' = [users EXCEPT ![req[w].user_id] =
                              [req[w].user EXCEPT !.username = req[w].username]]
  /\ Finish(w, req[w], "ok")
  /\ UNCHANGED <<daily_color, schema, schema_migrations, friendships, ticker, daily_scores, daily_leaderboard, daily_attempt_modifiers,
                 friend_activity, user_inventory, hist>>

\* ----------------------------------------------------------------- useItem
\* ShopRepo.GetInventoryItem with the ownership and stock checks, then
\* ShopRepo.GetItem (the catalogue does not change)
UseItemBegin(w, u, i) ==
  /\ pc[w] \in Outcomes
  /\ LET inventoryItem == user_inventory[i]
         r == [EmptyReq EXCEPT !.handler = "useItem", !.user_id = u, !.inventory_id = i,
                               !.item_id = inventoryItem.item_id]
     IN  IF inventoryItem.user_id # u THEN Finish(w, r, "forbidden")
         ELSE IF inventoryItem.quantity <= 0 THEN Finish(w, r, "bad_request")
         ELSE Goto(w, r, "use_item")
  /\ UNCHANGED <<db, ticker, hist>>

\* the UPDATE without its quantity > 0 condition
UseItemUseUnconditional(w) ==
  /\ pc[w] = "use_item"
  /\ user_inventory' = [user_inventory EXCEPT ![req[w].inventory_id].quantity = @ - 1,
                                              ![req[w].inventory_id].used_count = @ + 1]
  /\ Goto(w, req[w], "use_getinv")
  /\ UNCHANGED <<users, daily_color, schema, schema_migrations, friendships, ticker, daily_scores, daily_leaderboard,
                 daily_attempt_modifiers, friend_activity, hist>>

\* ShopDatabase.UseItem: UPDATE ... WHERE inventory_id = $1 AND quantity > 0
UseItemUse(w) ==
  /\ pc[w] = "use_item"
  /\ LET i == req[w].inventory_id
     IN  IF user_inventory[i].quantity > 0
         THEN /\ user_inventory' = [user_inventory EXCEPT ![i].quantity = @ - 1,
                                                          ![i].used_count = @ + 1]
              /\ Goto(w, req[w], "use_getinv")
         ELSE /\ Finish(w, req[w], "error")
              /\ UNCHANGED user_inventory
  /\ UNCHANGED <<users, daily_color, schema, schema_migrations, friendships, ticker, daily_scores, daily_leaderboard,
                 daily_attempt_modifiers, friend_activity, hist>>

\* the second ShopRepo.GetInventoryItem, for the response
UseItemGetUpdated(w) ==
  /\ pc[w] = "use_getinv"
  /\ LET r == [req[w] EXCEPT !.quantityLeft = user_inventory[req[w].inventory_id].quantity]
     IN  IF shop_items[r.item_id].effect_type = "extra_attempt"
         THEN Goto(w, r, "use_setmod")
         ELSE Finish(w, r, "ok")
  /\ UNCHANGED <<db, ticker, hist>>

\* an upsert that overwrites the stored amount
UpsertedOverwriting(row, extraAttempts) == [extra_attempts |-> extraAttempts]

\* an upsert that keeps the stored row on conflict
UpsertedKeeping(row, extraAttempts) ==
  IF row = NoRow THEN [extra_attempts |-> extraAttempts] ELSE row

\* INSERT ... ON CONFLICT (user_id, date) DO UPDATE SET extra_attempts =
\* daily_attempt_modifiers.extra_attempts + EXCLUDED.extra_attempts: the row
\* after the statement
Upserted(row, extraAttempts) ==
  IF row = NoRow THEN [extra_attempts |-> extraAttempts]
  ELSE [extra_attempts |-> row.extra_attempts + extraAttempts]

\* DailyScoreRepo.SetDailyAttemptModifier and the effect fields of the response
UseItemSetDailyAttemptModifier(w) ==
  /\ pc[w] = "use_setmod"
  /\ LET u == req[w].user_id
         extraAttempts == ExtraAttemptsOf(shop_items[req[w].item_id])
         modifier == Upserted(daily_attempt_modifiers[u], extraAttempts)
     IN  IF modifier.extra_attempts >= 0
         THEN /\ daily_attempt_modifiers' = [daily_attempt_modifiers EXCEPT ![u] = modifier]
              /\ hist' = [hist EXCEPT !.granted[u] = @ + extraAttempts]
              /\ Goto(w, [req[w] EXCEPT !.extraAttempts = extraAttempts,
                                        !.total_extra_attempts = modifier.extra_attempts,
                                        !.max_attempts = BaseAttempts + modifier.extra_attempts],
                      "use_respond")
         ELSE /\ Finish(w, req[w], "error")
              /\ UNCHANGED <<daily_attempt_modifiers, hist>>
  /\ UNCHANGED <<users, daily_color, schema, schema_migrations, friendships, ticker, daily_scores, daily_leaderboard,
                 friend_activity, user_inventory>>

\* the response with extra_attempts_applied, total_extra_attempts and
\* max_attempts is written
UseItemRespond(w) ==
  /\ pc[w] = "use_respond"
  /\ Finish(w, req[w], "ok")
  /\ UNCHANGED <<db, ticker, hist>>

\* -------------------------------------------------- resetUserDailyAttempts
\* a reset that deletes no attempt
ResetDeleteNoScores(w, u) ==
  /\ pc[w] \in Outcomes
  /\ ResetsSoFar < MaxResets
  /\ hist' = [hist EXCEPT !.reset_of[u] = @ + 1, !.raced[u] = @ \/ SubmitInFlight(u)]
  /\ Goto(w, [EmptyReq EXCEPT !.handler = "resetUserDailyAttempts", !.user_id = u], "reset_lb")
  /\ UNCHANGED <<db, ticker>>

\* DailyScoreRepo.DeleteUserScoresByDate for today
ResetDeleteUserScoresByDate(w, u) ==
  /\ pc[w] \in Outcomes
  /\ ResetsSoFar < MaxResets
  /\ hist' = [hist EXCEPT !.reset_of[u] = @ + 1, !.raced[u] = @ \/ SubmitInFlight(u)]
  /\ daily_scores' = [daily_scores EXCEPT ![u] = <<>>]
  /\ Goto(w, [EmptyReq EXCEPT !.handler = "resetUserDailyAttempts", !.user_id = u], "reset_lb")
  /\ UNCHANGED <<users, daily_color, schema, schema_migrations, friendships, ticker, daily_leaderboard, daily_attempt_modifiers,
                 friend_activity, user_inventory>>

\* DailyLeaderboardRepo.DeleteByUserAndDate
ResetDeleteByUserAndDate(w) ==
  /\ pc[w] = "reset_lb"
  /\ daily_leaderboard' = [daily_leaderboard EXCEPT ![req[w].user_id] = NoRow]
  /\ Goto(w, req[w], "reset_fa")
  /\ UNCHANGED <<users, daily_color, schema, schema_migrations, friendships, ticker, daily_scores, daily_attempt_modifiers,
                 friend_activity, user_inventory, hist>>

\* FriendRepo.RecordFriendActivity(userID, date, 0, 0)
ResetRecordFriendActivity(w) ==
  /\ pc[w] = "reset_fa"
  /\ friend_activity' = [friend_activity EXCEPT ![req[w].user_id] =
                            [best_score |-> 0, attempts_used |-> 0]]
  /\ Finish(w, req[w], "ok")
  /\ UNCHANGED <<users, daily_color, schema, schema_migrations, friendships, ticker, daily_scores, daily_leaderboard,
                 daily_attempt_modifiers, user_inventory, hist>>

\* ------------------------------------------------------------ store errors
\* A database call returns an error. The handlers answer 500 and return,
\* except for RecordFriendActivity, whose error is only logged.
StoreError(w) ==
  /\ hist.faults < MaxFaults
  /\ hist' = IF pc[w] = "sub_settle"
             THEN [hist EXCEPT !.faults = @ + 1, !.settle_fault[req[w].user_id] = "failed"]
             ELSE [hist EXCEPT !.faults = @ + 1]
  /\ \/ /\ pc[w] \in {"sub_today", "sub_count", "sub_modifier", "sub_create", "sub_getlb",
                      "sub_upsert", "sub_settle", "use_item", "use_getinv", "use_setmod",
                      "reset_lb"}
        /\ Finish(w, req[w], "error")
     \/ /\ pc[w] = "sub_friend"
        /\ LET r == [req[w] EXCEPT !.attemptsLeft = req[w].maxAttempts - req[w].attemptNumber]
           IN  IF r.attemptsLeft = 0 THEN Goto(w, r, "sub_settle") ELSE Finish(w, r, "ok")
     \/ /\ pc[w] = "reset_fa"
        /\ Finish(w, req[w], "ok")
  /\ UNCHANGED <<db, ticker>>

Next ==
  \/ \E w \in Workers, u \in Users, rgb \in Palette : SubmitBegin(w, u, rgb, MaxSubmits)
  \/ \E w \in Workers : SubmitGetToday(w)
  \/ \E w \in Workers : SubmitGetUserAttemptCount(w)
  \/ \E w \in Workers : SubmitGetDailyAttemptModifier(w)
  \/ \E w \in Workers : SubmitCreate(w)
  \/ \E w \in Workers : SubmitGetByUserAndDate(w)
  \/ \E w \in Workers : SubmitCreateOrUpdate(w)
  \/ \E w \in Workers : SubmitRecordFriendActivity(w)
  \/ \E w \in Workers : SubmitSettle(w)
  \/ \E w \in Workers, u \in Users, i \in InventoryIDs : UseItemBegin(w, u, i)
  \/ \E w \in Workers : UseItemUse(w)
  \/ \E w \in Workers : UseItemGetUpdated(w)
  \/ \E w \in Workers : UseItemSetDailyAttemptModifier(w)
  \/ \E w \in Workers : UseItemRespond(w)
  \/ \E w \in Workers, u \in Users : ResetDeleteUserScoresByDate(w, u)
  \/ \E w \in Workers : ResetDeleteByUserAndDate(w)
  \/ \E w \in Workers : ResetRecordFriendActivity(w)

Spec == Init /\ [][Next]_vars

\* the same requests over a store whose calls may fail
FaultNext ==
  \/ Next
  \/ \E w \in Workers : StoreError(w)

FaultSpec == Init /\ [][FaultNext]_vars

\* one client: worker w1 handles u1's requests one after the other, and the
\* submitted colors are those of the scenario
SeqNext ==
  \/ \E rgb \in ScenarioPalette : SubmitBegin("w1", "u1", rgb, MaxSeqSubmits)
  \/ SubmitGetToday("w1")
  \/ SubmitGetUserAttemptCount("w1")
  \/ SubmitGetDailyAttemptModifier("w1")
  \/ SubmitCreate("w1")
  \/ SubmitGetByUserAndDate("w1")
  \/ SubmitCreateOrUpdate("w1")
  \/ SubmitRecordFriendActivity("w1")
  \/ SubmitSettle("w1")
  \/ \E i \in InventoryIDs : UseItemBegin("w1", "u1", i)
  \/ UseItemUse("w1")
  \/ UseItemGetUpdated("w1")
  \/ UseItemSetDailyAttemptModifier("w1")
  \/ UseItemRespond("w1")
  \/ ResetDeleteUserScoresByDate("w1", "u1")
  \/ ResetDeleteByUserAndDate("w1")
  \/ ResetRecordFriendActivity("w1")

SeqSpec == Init /\ [][SeqNext]_vars

\* Submissions of user u1 next to the requests that write u1's users row:
\* the admin's addUserCredits, and u1's own purchaseItem and
\* updateCurrentUser.
EconNext ==
  \/ \E w \in Workers, rgb \in Palette : SubmitBegin(w, "u1", rgb, MaxSubmits)
  \/ \E w \in Workers : SubmitGetToday(w)
  \/ \E w \in Workers : SubmitGetUserAttemptCount(w)
  \/ \E w \in Workers : SubmitGetDailyAttemptModifier(w)
  \/ \E w \in Workers : SubmitCreate(w)
  \/ \E w \in Workers : SubmitGetByUserAndDate(w)
  \/ \E w \in Workers : SubmitCreateOrUpdate(w)
  \/ \E w \in Workers : SubmitRecordFriendActivity(w)
  \/ \E w \in Workers : SubmitSettle(w)
  \/ \E w \in Workers, credits \in CreditAmounts : AddCreditsGet(w, "u1", credits)
  \/ \E w \in Workers : AddCreditsUpdate(w)
  \/ \E w \in Workers, i \in InventoryIDs :
        PurchaseBegin(w, "u1", user_inventory[i].item_id)
  \/ \E w \in Workers : PurchaseUpdate(w)
  \/ \E w \in Workers : PurchaseAddItemToInventory(w)
  \/ \E w \in Workers, username \in Usernames : UpdateCurrentUserBegin(w, "u1", username)
  \/ \E w \in Workers : UpdateCurrentUserSave(w)

EconSpec == Init /\ [][EconNext]_vars

\* Concurrent submissions of user u1, with one database call that fails.
AdmitFaultNext ==
  \/ \E w \in Workers, rgb \in Palette : SubmitBegin(w, "u1", rgb, MaxSubmits)
  \/ \E w \in Workers : SubmitGetToday(w)
  \/ \E w \in Workers : SubmitGetUserAttemptCount(w)
  \/ \E w \in Workers : SubmitGetDailyAttemptModifier(w)
  \/ \E w \in Workers : SubmitCreate(w)
  \/ \E w \in Workers : SubmitGetByUserAndDate(w)
  \/ \E w \in Workers : SubmitCreateOrUpdate(w)
  \/ \E w \in Workers : SubmitRecordFriendActivity(w)
  \/ \E w \in Workers : SubmitSettle(w)
  \/ \E w \in Workers : StoreError(w)

AdmitFaultSpec == Init /\ [][AdmitFaultNext]_vars

\* Two players submitting at the same time, each for their own key: worker
\* w1 serves u1 and worker w2 serves u2.
PlayerOf == [w1 |-> "u1", w2 |-> "u2"]

KeysNext ==
  \/ \E w \in Workers, rgb \in Palette : SubmitBegin(w, PlayerOf[w], rgb, MaxSeqSubmits)
  \/ \E w \in Workers : SubmitGetToday(w)
  \/ \E w \in Workers : SubmitGetUserAttemptCount(w)
  \/ \E w \in Workers : SubmitGetDailyAttemptModifier(w)
  \/ \E w \in Workers : SubmitCreate(w)
  \/ \E w \in Workers : SubmitGetByUserAndDate(w)
  \/ \E w \in Workers : SubmitCreateOrUpdate(w)
  \/ \E w \in Workers : SubmitRecordFriendActivity(w)
  \/ \E w \in Workers : SubmitSettle(w)

KeysSpec == Init /\ [][KeysNext]_vars

\* ---------------------------------------------------------- getLeaderboard
\* ORDER BY dl.best_score ASC, dl.attempts_used ASC, dl.created_at ASC
BeforeAscending(a, b) ==
  \/ a.best_score < b.best_score
  \/ a.best_score = b.best_score /\ a.attempts_used < b.attempts_used
  \/ a.best_score = b.best_score /\ a.attempts_used = b.attempts_used
        /\ a.created_at < b.created_at

\* ORDER BY dl.best_score DESC, dl.attempts_used ASC, dl.created_at ASC
Before(a, b) ==
  \/ a.best_score > b.best_score
  \/ a.best_score = b.best_score /\ a.attempts_used < b.attempts_used
  \/ a.best_score = b.best_score /\ a.attempts_used = b.attempts_used
        /\ a.created_at < b.created_at

\* DailyLeaderboardRepo.GetLeaderboardByDate: the rows of the day joined
\* with users, numbered by ROW_NUMBER() in the order of Before, the first
\* `limit` of them
GetLeaderboardByDate(limit) ==
  LET listed == {u \in DOMAIN daily_leaderboard :
                   daily_leaderboard[u] # NoRow /\ u \in DOMAIN users}
      RowNumber(u) ==
        1 + Cardinality({v \in listed : Before(daily_leaderboard[v], daily_leaderboard[u])})
      n == IF Cardinality(listed) < limit THEN Cardinality(listed) ELSE limit
  IN  [k \in 1..n |->
         LET u == CHOOSE v \in listed : RowNumber(v) = k
         IN  [rank |-> k, user_id |-> u, username |-> users[u].username,
              best_score |-> daily_leaderboard[u].best_score,
              attempts_used |-> daily_leaderboard[u].attempts_used]]

\* getLeaderboard asks for the first LeaderboardLimit rows; the repository
\* call is also made with the smaller limits of LeaderboardLimits
LeaderboardLimits == {1, 2, LeaderboardLimit}

\* the response stays in req until the worker takes its next request
GetLeaderboard(w, limit) ==
  /\ pc[w] \in Outcomes
  /\ Goto(w, [EmptyReq EXCEPT !.handler = "getLeaderboard", !.limit = limit,
                              !.leaderboard = GetLeaderboardByDate(limit)], "ok")
  /\ UNCHANGED <<db, ticker, hist>>

\* The leaderboard of a day on which the players of RankUsers have finished
\* playing: each has no entry or one with a best score, the attempt that
\* reached it and the time the entry was created (no two entries are
\* created at the same instant).
RankUsers == {"A", "B", "C"}
RankRows ==
  [best_score : {90, 95}, attempts_used : {2, 3, 5}, created_at : 1..Cardinality(RankUsers)]

RankInit ==
  /\ users = [u \in RankUsers |-> [InitUser EXCEPT !.username = u]]
  /\ daily_color = <<TargetColor>>
  /\ daily_scores = [u \in RankUsers |-> <<>>]
  /\ daily_leaderboard \in [RankUsers -> RankRows \cup {NoRow}]
  /\ \A u, v \in RankUsers :
        (u # v /\ daily_leaderboard[u] # NoRow /\ daily_leaderboard[v] # NoRow)
        => daily_leaderboard[u].created_at # daily_leaderboard[v].created_at
  /\ daily_attempt_modifiers = [u \in RankUsers |-> NoRow]
  /\ friend_activity = [u \in RankUsers |-> NoRow]
  /\ user_inventory = [i \in {} |-> NoRow]
  /\ schema = [v \in MigrationVersions |-> 1]
  /\ schema_migrations = MigrationVersions
  /\ friendships = InitFriendships
  /\ ticker = "nil"
  /\ pc = [p \in Processes |-> "idle"]
  /\ req = [p \in Processes |-> EmptyReq]
  /\ hist = [faults |-> 0]

RankNext == \E w \in Workers, limit \in LeaderboardLimits : GetLeaderboard(w, limit)

RankSpec == RankInit /\ [][RankNext]_vars

\* The same client, with one database call that fails.
SeqFaultNext ==
  \/ SeqNext
  \/ StoreError("w1")

SeqFaultSpec == Init /\ [][SeqFaultNext]_vars

\* ------------------------------------------------- calculateColorScore
\* the values a channel takes, and the colors made of them
ChannelValues == {0, 13, 128, 255}
ScoreColors == {<<r, g, b>> : r \in ChannelValues, g \in ChannelValues, b \in ChannelValues}

ScoreInit ==
  /\ users = [u \in Users |-> InitUser]
  /\ daily_color = NoColor
  /\ daily_scores = [u \in Users |-> <<>>]
  /\ daily_leaderboard = [u \in Users |-> NoRow]
  /\ daily_attempt_modifiers = [u \in Users |-> NoRow]
  /\ friend_activity = [u \in Users |-> NoRow]
  /\ user_inventory = [i \in {} |-> NoRow]
  /\ schema = [v \in MigrationVersions |-> 1]
  /\ schema_migrations = MigrationVersions
  /\ friendships = InitFriendships
  /\ ticker = "nil"
  /\ pc = [p \in Processes |-> "idle"]
  /\ \E target \in ScoreColors, submitted \in ScoreColors :
        req = [p \in Processes |-> [EmptyReq EXCEPT !.target = target, !.submitted = submitted]]
  /\ hist = [faults |-> 0]

\* a call of calculateColorScore with the two colors of the caller
ScoreCall(w) ==
  /\ pc[w] = "idle"
  /\ Goto(w, [req[w] EXCEPT !.score = calculateColorScore(req[w].target, req[w].submitted)], "ok")
  /\ UNCHANGED <<db, ticker, hist>>

ScoreNext == \E w \in Workers : ScoreCall(w)

ScoreSpec == ScoreInit /\ [][ScoreNext]_vars

\* ------------------------------------------- generation of the daily color
\* the colors the color API answers with
GeneratedColors == {<<0, 0, 0>>, <<13, 13, 13>>}

\* GetByDate of today: an existing row ends the run, which is answered 200
\* by the handler and nil by the scheduler
GenerateGetByDate(p) ==
  /\ pc[p] \in Outcomes
  /\ hist.generates < MaxGenerates
  /\ hist' = [hist EXCEPT !.generates = @ + 1]
  /\ IF daily_color # NoColor
     THEN Finish(p, req[p], "ok")
     ELSE Goto(p, req[p], "gen_fetch")
  /\ UNCHANGED <<db, ticker>>

\* the request to the color API: a failure or a status other than 200 ends
\* the run, otherwise the seed color of the answer becomes the row to save
GenerateFetch(p, rgb, ok) ==
  /\ pc[p] = "gen_fetch"
  /\ IF ok
     THEN /\ Goto(p, [req[p] EXCEPT !.target = rgb], "gen_create")
          /\ UNCHANGED hist
     ELSE /\ hist.faults < MaxFaults
          /\ hist' = [hist EXCEPT !.faults = @ + 1]
          /\ Finish(p, req[p], "error")
  /\ UNCHANGED <<db, ticker>>

DailyColorAcceptedNoUnique(table, row) == ValidRGB(row)

\* the constraints of daily_color on an insert: date UNIQUE (every row of
\* the table is of today), r, g and b within 0..255
DailyColorAccepted(table, row) == table = NoColor /\ ValidRGB(row)

\* DailyColorRepo.Create, a plain INSERT
GenerateCreate(p) ==
  /\ pc[p] = "gen_create"
  /\ IF DailyColorAccepted(daily_color, req[p].target)
     THEN /\ daily_color' = Append(daily_color, req[p].target)
          /\ Finish(p, req[p], "ok")
     ELSE /\ daily_color' = daily_color
          /\ Finish(p, req[p], "error")
  /\ UNCHANGED <<users, daily_scores, daily_leaderboard, daily_attempt_modifiers,
                 friend_activity, user_inventory, schema, schema_migrations, friendships, ticker, hist>>

\* The scheduler and the admin handler generate the color of the day, while
\* one player submits.
ColorNext ==
  \/ \E p \in Workers \cup {"scheduler"} : GenerateGetByDate(p)
  \/ \E p \in Workers \cup {"scheduler"}, rgb \in GeneratedColors, ok \in BOOLEAN :
        GenerateFetch(p, rgb, ok)
  \/ \E p \in Workers \cup {"scheduler"} : GenerateCreate(p)
  \/ \E w \in Workers, rgb \in Palette : SubmitBegin(w, "u1", rgb, MaxSubmits)
  \/ \E w \in Workers : SubmitGetToday(w)
  \/ \E w \in Workers : SubmitGetUserAttemptCount(w)
  \/ \E w \in Workers : SubmitGetDailyAttemptModifier(w)
  \/ \E w \in Workers : SubmitCreate(w)
  \/ \E w \in Workers : SubmitGetByUserAndDate(w)
  \/ \E w \in Workers : SubmitCreateOrUpdate(w)
  \/ \E w \in Workers : SubmitRecordFriendActivity(w)
  \/ \E w \in Workers : SubmitSettle(w)

ColorSpec == Init /\ [][ColorNext]_vars

\* -------------------------------------------------------------- migrations
\* the sequence seq with x inserted before its first element above x
RECURSIVE Inserted(_, _)
Inserted(seq, x) ==
  IF seq = <<>> THEN <<x>>
  ELSE IF x < Head(seq) THEN <<x>> \o seq
  ELSE <<Head(seq)>> \o Inserted(Tail(seq), x)

RECURSIVE Reversed(_)
Reversed(seq) == IF seq = <<>> THEN <<>> ELSE Reversed(Tail(seq)) \o <<Head(seq)>>

RECURSIVE SortedByVersion(_)
SortedByVersion(files) ==
  IF files = <<>> THEN <<>>
  ELSE Inserted(SortedByVersion(Tail(files)), Head(files))

readMigrationFilesDescending(files) == Reversed(SortedByVersion(files))

\* readMigrationFiles: the .sql files of the directory, sorted by version
readMigrationFiles(files) == SortedByVersion(files)

MigInit ==
  /\ users = [u \in Users |-> InitUser]
  /\ daily_color = NoColor
  /\ daily_scores = [u \in Users |-> <<>>]
  /\ daily_leaderboard = [u \in Users |-> NoRow]
  /\ daily_attempt_modifiers = [u \in Users |-> NoRow]
  /\ friend_activity = [u \in Users |-> NoRow]
  /\ user_inventory = [i \in {} |-> NoRow]
  /\ schema = [v \in MigrationVersions |-> 0]
  /\ schema_migrations = {}
  /\ friendships = InitFriendships
  /\ ticker = "nil"
  /\ pc = [p \in Processes |-> "idle"]
  /\ req = [p \in Processes |-> EmptyReq]
  /\ hist = [runs |-> 0, faults |-> 0]

\* RunMigrations begins: createMigrationsTable (CREATE TABLE IF NOT EXISTS)
RunMigrationsBegin(p) ==
  /\ pc[p] \in Outcomes
  /\ hist.runs < MaxRuns
  /\ hist' = [hist EXCEPT !.runs = @ + 1]
  /\ Goto(p, [EmptyReq EXCEPT !.handler = "RunMigrations"], "mig_applied")
  /\ UNCHANGED <<db, ticker>>

\* getAppliedMigrations and readMigrationFiles
RunGetAppliedMigrations(p) ==
  /\ pc[p] = "mig_applied"
  /\ Goto(p, [req[p] EXCEPT !.appliedMigrations = schema_migrations,
                            !.migrations = readMigrationFiles(MigrationFiles),
                            !.index = 1], "mig_loop")
  /\ UNCHANGED <<db, ticker, hist>>

\* the loop of RunMigrations: done after the last migration, an applied
\* version is skipped, for any other applyMigration begins its transaction
RunLoop(p) ==
  /\ pc[p] = "mig_loop"
  /\ LET r == req[p]
     IN  IF r.index > Len(r.migrations) THEN Finish(p, r, "ok")
         ELSE IF r.migrations[r.index] \in r.appliedMigrations
         THEN Goto(p, [r EXCEPT !.index = @ + 1], "mig_loop")
         ELSE Goto(p, r, "mig_sql")
  /\ UNCHANGED <<db, ticker, hist>>

\* a statement of the transaction that fails: the deferred tx.Rollback runs
\* and RunMigrations returns the error
Failed(p) ==
  /\ hist.faults < MaxFaults
  /\ hist' = [hist EXCEPT !.faults = @ + 1]
  /\ Finish(p, req[p], "error")
  /\ UNCHANGED <<db, ticker>>

\* tx.Exec(migration.SQL) outside a transaction
ApplyExecSQLAutocommit(p, ok) ==
  /\ pc[p] = "mig_sql"
  /\ IF ok
     THEN /\ schema' = [schema EXCEPT ![req[p].migrations[req[p].index]] = @ + 1]
          /\ Goto(p, req[p], "mig_record")
          /\ UNCHANGED <<users, daily_color, daily_scores, daily_leaderboard,
                         daily_attempt_modifiers, friend_activity, user_inventory,
                         schema_migrations, friendships, ticker, hist>>
     ELSE Failed(p)

\* tx.Exec(migration.SQL): the changes stay in the transaction
ApplyExecSQL(p, ok) ==
  /\ pc[p] = "mig_sql"
  /\ IF ok
     THEN /\ Goto(p, req[p], "mig_record")
          /\ UNCHANGED <<db, ticker, hist>>
     ELSE Failed(p)

\* the INSERT INTO schema_migrations of the transaction: it waits for a
\* transaction that has inserted the same version, and it is rejected by the
\* primary key when the version is recorded
ApplyRecord(p, ok) ==
  /\ pc[p] = "mig_record"
  /\ LET version == req[p].migrations[req[p].index]
     IN  /\ \A q \in Processes \ {p} :
               ~(pc[q] = "mig_commit" /\ req[q].migrations[req[q].index] = version)
         /\ IF version \in schema_migrations
            THEN /\ Finish(p, req[p], "error")
                 /\ UNCHANGED <<db, ticker, hist>>
            ELSE IF ok
            THEN /\ Goto(p, req[p], "mig_commit")
                 /\ UNCHANGED <<db, ticker, hist>>
            ELSE Failed(p)

\* tx.Commit: the schema changes and the row become visible together
ApplyCommit(p, ok) ==
  /\ pc[p] = "mig_commit"
  /\ LET version == req[p].migrations[req[p].index]
     IN  IF ok
         THEN /\ schema' = [schema EXCEPT ![version] = @ + 1]
              /\ schema_migrations' = schema_migrations \cup {version}
              /\ Goto(p, [req[p] EXCEPT !.index = @ + 1], "mig_loop")
              /\ UNCHANGED <<users, daily_color, daily_scores, daily_leaderboard,
                             daily_attempt_modifiers, friend_activity, user_inventory, friendships, ticker,
                             hist>>
         ELSE Failed(p)

\* Two instances of the server start on one database, and start again.
MigNext ==
  \/ \E p \in Workers : RunMigrationsBegin(p)
  \/ \E p \in Workers : RunGetAppliedMigrations(p)
  \/ \E p \in Workers : RunLoop(p)
  \/ \E p \in Workers, ok \in BOOLEAN : ApplyExecSQL(p, ok)
  \/ \E p \in Workers, ok \in BOOLEAN : ApplyRecord(p, ok)
  \/ \E p \in Workers, ok \in BOOLEAN : ApplyCommit(p, ok)

MigSpec == MigInit /\ [][MigNext]_vars

\* ------------------------------------------------------ getUserScoreHistory
\* getUserFromToken, then DailyScoreRepo.GetUserScoresByDate
HistoryGetUserScoresByDate(w, u) ==
  /\ pc[w] \in Outcomes
  /\ hist.ops.history < MaxAccountOps
  /\ hist' = [hist EXCEPT !.ops.history = @ + 1]
  /\ Goto(w, [EmptyReq EXCEPT !.handler = "getUserScoreHistory", !.user_id = u,
                              !.user = users[u], !.attempts = daily_scores[u]],
          "his_getlb")
  /\ UNCHANGED <<db, ticker>>

\* the highest Score of the attempts, from 0, as the loop finds it
RECURSIVE BestOfAttempts(_, _)
BestOfAttempts(attempts, bestScore) ==
  IF attempts = <<>> THEN bestScore
  ELSE BestOfAttempts(Tail(attempts),
                      IF Head(attempts).score > bestScore THEN Head(attempts).score
                      ELSE bestScore)

\* DailyLeaderboardRepo.GetByUserAndDate: bestScore and attemptsUsed
HistoryGetByUserAndDate(w) ==
  /\ pc[w] = "his_getlb"
  /\ LET r == req[w]
         entry == daily_leaderboard[r.user_id]
         bestScore == IF entry # NoRow THEN entry.best_score
                      ELSE IF Len(r.attempts) > 0 THEN BestOfAttempts(r.attempts, 0)
                      ELSE 0
     IN  Goto(w, [r EXCEPT !.bestScore = bestScore, !.attemptCount = Len(r.attempts)],
              "his_modifier")
  /\ UNCHANGED <<db, ticker, hist>>

\* the history with attemptsLeft left as computed
HistoryGetDailyAttemptModifierNoFloor(w) ==
  /\ pc[w] = "his_modifier"
  /\ LET r == req[w]
         modifier == daily_attempt_modifiers[r.user_id]
         extraAttempts == IF modifier # NoRow THEN modifier.extra_attempts ELSE 0
         maxAttempts == BaseAttempts + extraAttempts
     IN  Goto(w, [r EXCEPT !.extraAttempts = extraAttempts, !.maxAttempts = maxAttempts,
                           !.attemptsLeft = maxAttempts - r.attemptCount], "his_respond")
  /\ UNCHANGED <<db, ticker, hist>>

\* DailyScoreRepo.GetDailyAttemptModifier: maxAttempts and attemptsLeft
HistoryGetDailyAttemptModifier(w) ==
  /\ pc[w] = "his_modifier"
  /\ LET r == req[w]
         modifier == daily_attempt_modifiers[r.user_id]
         extraAttempts == IF modifier # NoRow THEN modifier.extra_attempts ELSE 0
         maxAttempts == IF BaseAttempts + extraAttempts > HardCap THEN HardCap
                        ELSE BaseAttempts + extraAttempts
         attemptsLeft == IF maxAttempts - r.attemptCount < 0 THEN 0
                         ELSE maxAttempts - r.attemptCount
     IN  Goto(w, [r EXCEPT !.extraAttempts = extraAttempts, !.maxAttempts = maxAttempts,
                           !.attemptsLeft = attemptsLeft], "his_respond")
  /\ UNCHANGED <<db, ticker, hist>>

\* the UserScoreHistory response is written
HistoryRespond(w) ==
  /\ pc[w] = "his_respond"
  /\ Finish(w, req[w], "ok")
  /\ UNCHANGED <<db, ticker, hist>>

\* One client: submissions and item uses, one of them with a failing
\* database call, and the history read between them.
HistNext ==
  \/ \E rgb \in ScenarioPalette : SubmitBegin("w1", "u1", rgb, MaxSubmits)
  \/ SubmitGetToday("w1")
  \/ SubmitGetUserAttemptCount("w1")
  \/ SubmitGetDailyAttemptModifier("w1")
  \/ SubmitCreate("w1")
  \/ SubmitGetByUserAndDate("w1")
  \/ SubmitCreateOrUpdate("w1")
  \/ SubmitRecordFriendActivity("w1")
  \/ SubmitSettle("w1")
  \/ \E i \in InventoryIDs : UseItemBegin("w1", "u1", i)
  \/ UseItemUse("w1")
  \/ UseItemGetUpdated("w1")
  \/ UseItemSetDailyAttemptModifier("w1")
  \/ UseItemRespond("w1")
  \/ StoreError("w1")
  \/ HistoryGetUserScoresByDate("w1", "u1")
  \/ HistoryGetByUserAndDate("w1")
  \/ HistoryGetDailyAttemptModifier("w1")
  \/ HistoryRespond("w1")

HistSpec == Init /\ [][HistNext]_vars

\* Concurrent useItem requests of one user.
UseNext ==
  \/ \E w \in Workers, i \in InventoryIDs : UseItemBegin(w, "u1", i)
  \/ \E w \in Workers : UseItemUse(w)
  \/ \E w \in Workers : UseItemGetUpdated(w)
  \/ \E w \in Workers : UseItemSetDailyAttemptModifier(w)
  \/ \E w \in Workers : UseItemRespond(w)

UseSpec == Init /\ [][UseNext]_vars

\* -------------------------------------------------- respondToFriendRequest
\* getUserFromToken, then the payload: friendshipId and action
RespondBegin(w, u, friendshipID, action) ==
  /\ pc[w] \in Outcomes
  /\ LET newStatus == IF action = "accept" THEN "accepted"
                      ELSE IF action = "decline" THEN "declined" ELSE "none"
         r == [EmptyReq EXCEPT !.handler = "respondToFriendRequest", !.user_id = u,
                               !.friendshipID = friendshipID, !.newStatus = newStatus]
     IN  IF friendshipID = 0 \/ newStatus = "none" THEN Finish(w, r, "bad_request")
         ELSE Goto(w, r, "fr_update")
  /\ UNCHANGED <<db, ticker, hist>>

\* FriendRepo.UpdateFriendshipStatus (UPDATE ... WHERE friendship_id = $1
\* RETURNING ...), then the check that the user is part of the friendship
RespondUpdateFriendshipStatus(w) ==
  /\ pc[w] = "fr_update"
  /\ LET id == req[w].friendshipID
     IN  IF id \notin DOMAIN friendships
         THEN /\ Finish(w, req[w], "error")
              /\ UNCHANGED friendships
         ELSE /\ friendships' = [friendships EXCEPT ![id].status = req[w].newStatus]
              /\ LET friendship == friendships'[id]
                 IN  IF friendship.requester_id # req[w].user_id
                        /\ friendship.addressee_id # req[w].user_id
                     THEN Finish(w, req[w], "forbidden")
                     ELSE Finish(w, req[w], "ok")
  /\ UNCHANGED <<users, daily_color, daily_scores, daily_leaderboard, daily_attempt_modifiers,
                 friend_activity, user_inventory, schema, schema_migrations, ticker, hist>>

FriendNext ==
  \/ \E w \in Workers, u \in Responders, id \in FriendshipIDs, action \in FriendActions :
        RespondBegin(w, u, id, action)
  \/ \E w \in Workers : RespondUpdateFriendshipStatus(w)

FriendSpec == Init /\ [][FriendNext]_vars

\* ------------------------------------------------------ Scheduler.Start, Stop
\* after Start: the AfterFunc timer is waiting for midnight
SchedInit ==
  /\ users = [u \in Users |-> InitUser]
  /\ daily_color \in {NoColor, <<TargetColor>>}
  /\ daily_scores = [u \in Users |-> <<>>]
  /\ daily_leaderboard = [u \in Users |-> NoRow]
  /\ daily_attempt_modifiers = [u \in Users |-> NoRow]
  /\ friend_activity = [u \in Users |-> NoRow]
  /\ user_inventory = [i \in {} |-> NoRow]
  /\ schema = [v \in MigrationVersions |-> 1]
  /\ schema_migrations = MigrationVersions
  /\ friendships = InitFriendships
  /\ ticker = "nil"
  /\ pc = [p \in Processes |-> IF p = "scheduler" THEN "sch_timer" ELSE "idle"]
  /\ req = [p \in Processes |-> EmptyReq]
  /\ hist = [generates |-> 0, faults |-> 0]

\* the timer fires at midnight: its function calls GenerateDailyColor
SchedulerTimerFires ==
  /\ pc["scheduler"] = "sch_timer"
  /\ Goto("scheduler", req["scheduler"], "idle")
  /\ UNCHANGED <<db, ticker, hist>>

\* GenerateDailyColor has returned: after the first run the ticker is
\* created and the goroutine of the loop starts, after a later run the loop
\* goes on
SchedulerAfterRun ==
  /\ pc["scheduler"] \in {"ok", "error"}
  /\ ticker' = IF ticker = "nil" THEN "running" ELSE ticker
  /\ Goto("scheduler", req["scheduler"], "sch_select")
  /\ UNCHANGED <<db, hist>>

\* case <-s.ticker.C: a tick of a ticker that was not stopped
SchedulerTick ==
  /\ pc["scheduler"] = "sch_select"
  /\ ticker = "running"
  /\ hist.generates < MaxGenerates
  /\ Goto("scheduler", req["scheduler"], "idle")
  /\ UNCHANGED <<db, ticker, hist>>

\* Stop that returns without the send on done
StopTickerOnly(seesTicker) ==
  /\ pc["main"] = "idle"
  /\ seesTicker => ticker # "nil"
  /\ ticker' = IF seesTicker THEN "stopped" ELSE ticker
  /\ Goto("main", req["main"], "ok")
  /\ UNCHANGED <<db, hist>>

\* Stop: if s.ticker != nil { s.ticker.Stop() }. The field is written by the
\* timer's goroutine without synchronisation, so Stop may still read nil
\* after the ticker was created.
StopTicker(seesTicker) ==
  /\ pc["main"] = "idle"
  /\ seesTicker => ticker # "nil"
  /\ ticker' = IF seesTicker THEN "stopped" ELSE ticker
  /\ Goto("main", req["main"], "stop_send")
  /\ UNCHANGED <<db, hist>>

\* s.done <- true meets case <-s.done of the loop (done is unbuffered): the
\* goroutine returns, and Stop logs and returns
SchedulerReceiveDone ==
  /\ pc["main"] = "stop_send"
  /\ pc["scheduler"] = "sch_select"
  /\ pc' = [pc EXCEPT !["main"] = "ok", !["scheduler"] = "sch_returned"]
  /\ UNCHANGED <<db, ticker, req, hist>>

\* the steps of the scheduler's goroutines
SchedulerStep ==
  \/ SchedulerTimerFires
  \/ pc["scheduler"] = "idle" /\ GenerateGetByDate("scheduler")
  \/ \E rgb \in GeneratedColors, ok \in BOOLEAN : GenerateFetch("scheduler", rgb, ok)
  \/ GenerateCreate("scheduler")
  \/ SchedulerAfterRun
  \/ SchedulerReceiveDone

SchedNext ==
  \/ SchedulerStep
  \/ SchedulerTick
  \/ \E seesTicker \in BOOLEAN : StopTicker(seesTicker)

SchedSpec == SchedInit /\ [][SchedNext]_vars

\* time passes and the calls of GenerateDailyColor return
SchedFairSpec == SchedSpec /\ WF_vars(SchedulerStep)

\* ------------------------------------------------------------------ claims
ExtraAttempts(u) ==
  IF daily_attempt_modifiers[u] = NoRow THEN 0
  ELSE daily_attempt_modifiers[u].extra_attempts

AttemptNumbers(u) == {daily_scores[u][i].attempt_number : i \in 1..Len(daily_scores[u])}

RECURSIVE BestOf(_)
BestOf(rows) == IF rows = <<>> THEN 0 ELSE Max(Head(rows).score, BestOf(Tail(rows)))

\* the attempt_number of the earliest attempt that reached the best score
FirstBest(rows) ==
  LET at == {rows[i].attempt_number : i \in {j \in 1..Len(rows) : rows[j].score = BestOf(rows)}}
  IN  CHOOSE n \in at : \A m \in at : n <= m

\* C1: of N submissions for one key with no earlier attempts (and no reset
\* and no store error), exactly min(N, cap) are admitted, and the admitted
\* attempts are numbered 1..min(N, cap). N is the number of submissions
\* that have read the attempt count, once none of them is in flight.
C1_ExactlyMinAdmitted ==
  \A u \in Users :
    (/\ ~SubmitInFlight(u)
     /\ hist.earlier[u] = 0 /\ hist.reset_of[u] = 0 /\ hist.faults = 0)
    => /\ Len(daily_scores[u]) = Min(hist.gate[u], CapOf(ExtraAttempts(u)))
       /\ AttemptNumbers(u) = 1..Min(hist.gate[u], CapOf(ExtraAttempts(u)))

\* C2: without an admin reset of the key, the daily reward of a (user, date)
\* is applied to the user's points, credits and level at most once.
C2_SettledAtMostOnce ==
  \A u \in Users : hist.reset_of[u] = 0 => hist.settled[u] <= 1

\* C3: the number of persisted attempts of a key never exceeds
\* min(10, 5 + extraAttempts of the key).
C3_WithinBudget ==
  \A u \in Users : Len(daily_scores[u]) <= Min(HardCap, BaseAttempts + ExtraAttempts(u))

\* two submissions of u1 read the same count below the cap, one insert was
\* rejected, and the budget of the key is used up
C3_Witness ==
  /\ Len(daily_scores["u1"]) = Min(HardCap, BaseAttempts + ExtraAttempts("u1"))
  /\ hist.gate["u1"] = 2
  /\ \E w \in Workers : pc[w] = "error"

\* C4: the attempt numbers of the persisted attempts of a key are unique and
\* are exactly 1..count, whatever submitScore, useItem and
\* resetUserDailyAttempts requests interleave.
C4_Contiguous ==
  \A u \in Users :
    /\ Cardinality(AttemptNumbers(u)) = Len(daily_scores[u])
    /\ AttemptNumbers(u) = 1..Len(daily_scores[u])

\* C5: whenever no submission of a key is in flight (and the key was not
\* reset and no store call failed), the best_score of its leaderboard entry
\* is the maximum score of its persisted attempts.
C5_BestIsMax ==
  \A u \in Users :
    (/\ ~SubmitInFlight(u)
     /\ hist.reset_of[u] = 0 /\ hist.faults = 0
     /\ daily_scores[u] # <<>>)
    => /\ daily_leaderboard[u] # NoRow
       /\ daily_leaderboard[u].best_score = BestOf(daily_scores[u])

\* C6: the leaderboard update rule. A submission that finds no entry creates
\* it with its score and attempt number; one that finds an entry with a lower
\* best_score replaces both fields; both report isNewBest. One that finds an
\* equal or higher best_score writes nothing and reports the entry it found.
\* So, for requests handled one after the other, the entry holds the maximum
\* score and the attempt number of the earliest attempt that reached it.
C6_Step ==
  LET u == req["w1"].user_id
      existing == daily_leaderboard[u]
      improves == existing = NoRow \/ req["w1"].score > existing.best_score
  IN  /\ pc["w1"] = "sub_getlb" =>
           IF improves
           THEN /\ pc'["w1"] = "sub_upsert"
                /\ req'["w1"].isNewBest
                /\ req'["w1"].bestScore = req["w1"].score
                /\ req'["w1"].bestAttemptsUsed = req["w1"].attemptNumber
           ELSE /\ pc'["w1"] = "sub_friend"
                /\ ~req'["w1"].isNewBest
                /\ req'["w1"].bestScore = existing.best_score
                /\ req'["w1"].bestAttemptsUsed = existing.attempts_used
      /\ pc["w1"] = "sub_upsert" =>
           daily_leaderboard'[u] = [best_score |-> req["w1"].score,
                                    attempts_used |-> req["w1"].attemptNumber]
      /\ pc["w1"] = "sub_friend" => daily_leaderboard'[u] = existing

C6_Entry ==
  \A u \in Users :
    pc["w1"] \in Outcomes =>
      IF daily_scores[u] = <<>> THEN daily_leaderboard[u] = NoRow
      ELSE daily_leaderboard[u] = [best_score |-> BestOf(daily_scores[u]),
                                   attempts_used |-> FirstBest(daily_scores[u])]

C6_LeaderboardRule == [][C6_Step]_vars /\ []C6_Entry

\* the scenario: scores 40, 95, 95, 10, 60 leave {bestScore: 95, attemptsUsed: 2}
C6_Witness ==
  /\ pc["w1"] = "ok"
  /\ Len(daily_scores["u1"]) = 5
  /\ [i \in 1..5 |-> daily_scores["u1"][i].score] = <<40, 95, 95, 10, 60>>
  /\ daily_leaderboard["u1"] = [best_score |-> 95, attempts_used |-> 2]

\* C7: the cap a submission enforces is min(10, 5 + the sum of the extra
\* attempts granted to the key so far), 5 when nothing was granted: the
\* submission is refused exactly when the count it read has reached that cap.
C7_Step ==
  \A w \in Workers :
    (pc[w] = "sub_modifier" /\ pc'[w] \in {"sub_create", "limit"}) =>
      LET cap == Min(HardCap, BaseAttempts + hist.granted[req[w].user_id])
      IN  /\ pc'[w] = "limit" <=> req[w].attemptCount >= cap
          /\ pc'[w] = "sub_create" => req'[w].maxAttempts = cap

C7_CapIsClampedSum == [][C7_Step]_vars

\* after grants of 1 and 5 a submission works with the cap min(10, 5+1+5) = 10
C7_Witness ==
  \E w \in Workers :
    /\ pc[w] = "sub_create"
    /\ req[w].extraAttempts = 6
    /\ req[w].maxAttempts = 10
    /\ hist.granted[req[w].user_id] = 6

\* C8: the stored extra_attempts of a key is the sum of all amounts granted
\* to it, whatever useItem requests interleave, and each
\* SetDailyAttemptModifier call returns the total after its own grant.
C8_Step ==
  \A w \in Workers :
    (pc[w] = "use_setmod" /\ pc'[w] = "use_respond") =>
      /\ req'[w].total_extra_attempts = hist'.granted[req[w].user_id]
      /\ req'[w].total_extra_attempts =
           ExtraAttempts(req[w].user_id) + req'[w].extraAttempts

C8_Sum == \A u \in Users : ExtraAttempts(u) = hist.granted[u]

C8_GrantsAdd == [][C8_Step]_vars /\ []C8_Sum

\* two useItem requests were in flight together and both grants are stored
C8_Witness ==
  /\ pc["w1"] = "use_respond" /\ pc["w2"] = "use_respond"
  /\ ExtraAttempts("u1") = 6

\* C9: extra_attempts of a key is never negative and no step of a
\* submitScore, useItem or resetUserDailyAttempts request lowers it.
C9_Step == \A u \in Users : ExtraAttempts(u)' >= ExtraAttempts(u)

C9_NonNegative == \A u \in Users : ExtraAttempts(u) >= 0

C9_Monotone == [][C9_Step]_vars /\ []C9_NonNegative

\* a key with granted attempts has been submitted to and reset
C9_Witness ==
  /\ ExtraAttempts("u1") = 6
  /\ hist.reset_of["u1"] = 1
  /\ hist.gate["u1"] >= 1

\* C10: a submission that reads an attempt count at or above the cap answers
\* with the attempt-limit outcome (unless the modifier read itself fails)
\* and that step writes nothing: the attempts, the leaderboard, the friend
\* activity and the users table are unchanged.
C10_Step ==
  \A w \in Workers :
    (/\ pc[w] = "sub_modifier" /\ pc'[w] # "sub_modifier"
     /\ req[w].attemptCount >= Min(HardCap, BaseAttempts + ExtraAttempts(req[w].user_id)))
    => /\ pc'[w] = "limit" \/ hist'.faults # hist.faults
       /\ UNCHANGED <<users, daily_scores, daily_leaderboard, friend_activity,
                      daily_attempt_modifiers, user_inventory>>

C10_LimitWritesNothing == [][C10_Step]_vars

\* a submission was refused with the key's budget used up
C10_Witness ==
  \E w \in Workers :
    /\ pc[w] = "limit"
    /\ Len(daily_scores["u1"]) = BaseAttempts
    /\ ExtraAttempts("u1") = 0

\* the step of worker w in which its submission applies the daily reward
SettlementFires(w) == pc[w] = "sub_settle" /\ pc'[w] = "ok"

\* C11: when the settlement fires for requests served one at a time, the
\* user's points grow by the best_score of the day's leaderboard entry and
\* the credits by ceil(best_score / 2).
C11_Step ==
  \A w \in Workers :
    SettlementFires(w)
    => LET u == req[w].user_id
           bestScore == daily_leaderboard[u].best_score
           creditsAwarded == users'[u].credits - users[u].credits
       IN  /\ daily_leaderboard[u] # NoRow
           /\ users'[u].points = users[u].points + bestScore
           /\ 2 * creditsAwarded >= bestScore
           /\ 2 * creditsAwarded < bestScore + 2

C11_AwardIsBestScore == [][C11_Step]_vars

\* the fifth submission settled a best score of 95: +95 points, +48 credits
C11_Witness ==
  /\ pc["w1"] = "ok"
  /\ daily_leaderboard["u1"] # NoRow
  /\ daily_leaderboard["u1"].best_score = 95
  /\ users["u1"].points = InitUser.points + 95
  /\ users["u1"].credits = InitUser.credits + 48

\* C12: when the settlement fires for requests served one at a time, the
\* level grows by floor((points + best_score) / 1000) - floor(points / 1000),
\* which is never negative.
C12_Step ==
  \A w \in Workers :
    SettlementFires(w)
    => LET u == req[w].user_id
           newTotalPoints == users[u].points + daily_leaderboard[u].best_score
           levelsGained == (newTotalPoints \div MilestonePoints)
                             - (users[u].points \div MilestonePoints)
       IN  /\ levelsGained >= 0
           /\ users'[u].level = users[u].level + levelsGained

C12_LevelsGained == [][C12_Step]_vars

\* 950 points and a best score of 95 crossed one milestone
C12_Witness ==
  /\ users["u1"].points = 1045
  /\ users["u1"].level = InitUser.level + 1
  /\ hist.settled["u1"] = 1

\* C13: a settlement whose write failed can be retried: once a settlement
\* write of a key has failed and a later submission of the key has been
\* answered (the key not reset), the daily reward has been applied, once.
C13_RetrySettles ==
  \A u \in Users :
    (/\ hist.settle_fault[u] = "retried"
     /\ ~SubmitInFlight(u)
     /\ hist.reset_of[u] = 0)
    => hist.settled[u] = 1

\* every request has been answered
Quiescent == \A w \in Workers : pc[w] \in Outcomes

\* C14: the settlement adds to the users row next to concurrent credit
\* changes: once a settlement and the addUserCredits and purchaseItem
\* requests of the user have all completed (no profile update), the credits
\* are the initial credits plus the credits awarded plus the other requests'
\* changes, and the points are the initial points plus the points awarded.
C14_NoLostUpdate ==
  \A u \in Users :
    (Quiescent /\ hist.ops.profile = 0 /\ hist.settled[u] >= 1)
    => /\ users[u].credits = InitUser.credits + hist.awarded[u].credits + hist.credit_delta[u]
       /\ users[u].points = InitUser.points + hist.awarded[u].points

\* C15: the settlement leaves the profile fields of the users row as they
\* are stored at the time of its write.
C15_Step ==
  \A w \in Workers :
    SettlementFires(w) => users'[req[w].user_id].username = users[req[w].user_id].username

C15_SettlementKeepsProfile == [][C15_Step]_vars

\* the leaderboard entries of the day
Entries == {u \in DOMAIN daily_leaderboard : daily_leaderboard[u] # NoRow}

\* row a of a listing may stand directly above row b
InRankOrder(a, b) ==
  \/ a.best_score > b.best_score
  \/ /\ a.best_score = b.best_score
     /\ \/ a.attempts_used < b.attempts_used
        \/ /\ a.attempts_used = b.attempts_used
           /\ daily_leaderboard[a.user_id].created_at
                < daily_leaderboard[b.user_id].created_at

\* a listing of the day's entries as the ranking orders them, cut at limit
IsRanking(listing, limit) ==
  /\ Len(listing) = Min(limit, Cardinality(Entries))
  /\ \A k \in 1..Len(listing) :
       /\ listing[k].rank = k
       /\ listing[k].user_id \in Entries
       /\ listing[k].best_score = daily_leaderboard[listing[k].user_id].best_score
       /\ listing[k].attempts_used = daily_leaderboard[listing[k].user_id].attempts_used
  /\ \A k \in 1..(Len(listing) - 1) : InRankOrder(listing[k], listing[k + 1])
  /\ \A u \in Entries :
       (\A k \in 1..Len(listing) : listing[k].user_id # u)
       => \A k \in 1..Len(listing) :
            InRankOrder(listing[k],
                        [user_id |-> u, best_score |-> daily_leaderboard[u].best_score,
                         attempts_used |-> daily_leaderboard[u].attempts_used])

KeyState(u) ==
  <<daily_scores[u], daily_leaderboard[u], daily_attempt_modifiers[u],
    friend_activity[u], users[u]>>

\* C17: submissions of different keys are independent. A step of a
\* submission of key u leaves the attempts, the leaderboard entry, the
\* modifier (and the friend activity and users row) of every other key
\* unchanged; with the other key's submission in progress it is refused
\* exactly when the attempts of its own key have reached its cap, and
\* otherwise admitted with the next attempt number of its own key.
C17_Step ==
  \A w \in Workers :
    pc'[w] # pc[w]
    => LET u == PlayerOf[w]
       IN  /\ \A v \in Users \ {u} : KeyState(v)' = KeyState(v)
           /\ pc[w] = "sub_modifier"
                => (pc'[w] = "limit" <=> Len(daily_scores[u]) >= CapOf(ExtraAttempts(u)))
           /\ pc[w] = "sub_create"
                => /\ pc'[w] = "sub_getlb"
                   /\ Len(daily_scores'[u]) = Len(daily_scores[u]) + 1
                   /\ daily_scores'[u][Len(daily_scores'[u])].attempt_number
                        = Len(daily_scores'[u])

\* the only failure is the one of a day without a published colour
C17_NoFailure == \A w \in Workers : pc[w] = "error" => daily_color = NoColor

C18_Step ==
  \A w \in Workers :
    (pc[w] = "sub_create" /\ pc'[w] # "sub_create" /\ pc'[w] # "sub_getlb")
    => /\ pc'[w] = "error"
       /\ UNCHANGED <<daily_scores, daily_leaderboard, friend_activity, users,
                      daily_attempt_modifiers, user_inventory>>

C18_FailedAdmissionWritesNothing == [][C18_Step]_vars

\* of two submissions that read the same count, one was admitted and the
\* other's insert was rejected
C18_Witness ==
  /\ hist.faults = 0 /\ daily_color # NoColor
  /\ hist.gate["u1"] = 2
  /\ Len(daily_scores["u1"]) = hist.earlier["u1"] + 1
  /\ \E w \in Workers : pc[w] = "error"

\* C19: the attempts of a key are ordered by attempt number as they were
\* committed: of two persisted attempts the one inserted later has the
\* larger attempt_number (so no two have the same).
C19_CommitOrder ==
  \A u \in Users :
    \A i, j \in 1..Len(daily_scores[u]) :
      i < j => daily_scores[u][i].attempt_number < daily_scores[u][j].attempt_number

\* the step in which worker w's reset of user u completes
ResetCompletes(w, u) ==
  pc[w] = "reset_fa" /\ req[w].user_id = u /\ pc'[w] = "ok"

\* C20 as stated: when a reset of a key completes and no submission of the
\* key is in flight at that moment, the key has no attempts and no
\* leaderboard entry.
C20_Step ==
  \A w \in Workers, u \in Users :
    (ResetCompletes(w, u) /\ ~SubmitInFlight(u))
    => daily_scores'[u] = <<>> /\ daily_leaderboard'[u] = NoRow

C20_CleanStep ==
  \A w \in Workers, u \in Users :
    /\ (ResetCompletes(w, u) /\ ~hist.raced[u])
         => daily_scores'[u] = <<>> /\ daily_leaderboard'[u] = NoRow
    /\ ((pc'[w] # pc[w] /\ ResetInProgress(u)' /\ req'[w].user_id = u)
          \/ ResetCompletes(w, u))
         => \A v \in Users \ {u} : KeyState(v)' = KeyState(v)

C20_NextIsFirst ==
  \A u \in Users :
    (hist.reset_of[u] >= 1 /\ ~hist.raced[u] /\ ~ResetInProgress(u)
       /\ daily_scores[u] # <<>>)
    => daily_scores[u][1].attempt_number = 1

C21_Step(w) ==
  (SubmitGetToday(w) /\ daily_color = NoColor)
  => (pc'[w] \in Outcomes /\ UNCHANGED db /\ hist'.settled = hist.settled)

C21_NoTargetNoEffect ==
  /\ [][\A w \in Workers : C21_Step(w)]_vars
  /\ [](daily_color = NoColor =>
          \A u \in Users : /\ daily_scores[u] = <<>>
                           /\ daily_leaderboard[u] = NoRow
                           /\ friend_activity[u] = NoRow
                           /\ users[u] = InitUser)

C21_Witness ==
  /\ daily_color = NoColor
  /\ hist.submits > 0
  /\ \E w \in Workers : pc[w] = "error" /\ pc[CHOOSE v \in Workers : v # w] = "sub_today"

\* C22: a submission rejected for a domain reason (the attempt limit is
\* reached, or no target is published for today) never ends in the outcome
\* a store failure ends in ("error", the 500 answer of internalServerError).
C22_DomainOutcomeNotStoreFailure ==
  [][\A w \in Workers :
        /\ (SubmitGetToday(w) /\ daily_color = NoColor) => pc'[w] # "error"
        /\ (SubmitGetDailyAttemptModifier(w) /\ pc'[w] \in Outcomes /\ hist'.faults = hist.faults)
           => pc'[w] # "error"]_vars

\* C26: the table holds at most one daily color for the date, and a published
\* color is never modified, whatever the interleaving of the scheduler's
\* GenerateDailyColor and the admin's generateDailyColor.
C26_OneColorPerDate ==
  /\ [](Len(daily_color) <= 1)
  /\ [][daily_color # NoColor => daily_color' = daily_color]_vars

C26_Witness ==
  /\ Len(daily_color) = 1
  /\ hist.faults = 0
  /\ pc["scheduler"] = "error"
  /\ \E w \in Workers : pc[w] = "ok" /\ hist.submits = 0

\* C23: for every pair of colors with components in 0..255,
\* calculateColorScore returns an integer from 0 to 100.
C23_ScoreInRange ==
  \A w \in Workers :
     (pc[w] = "ok" /\ ValidRGB(req[w].target) /\ ValidRGB(req[w].submitted))
     => req[w].score \in 0..100

C23_Witness ==
  \E w \in Workers : /\ pc[w] = "ok"
                     /\ req[w].target = <<255, 255, 255>>
                     /\ req[w].submitted = <<0, 13, 128>>
                     /\ req[w].score \in 1..99

\* C24: calculateColorScore of a color against itself is 100, and of
\* (0,0,0) against (255,255,255) it is 0.
C24_ScoreEndpoints ==
  \A w \in Workers :
     pc[w] = "ok" =>
       /\ req[w].target = req[w].submitted => req[w].score = 100
       /\ (req[w].target = <<0, 0, 0>> /\ req[w].submitted = <<255, 255, 255>>)
          => req[w].score = 0

C24_Witness ==
  /\ pc["w1"] = "ok" /\ pc["w2"] = "ok"
  /\ req["w1"].target = <<0, 0, 0>> /\ req["w1"].submitted = <<255, 255, 255>>
  /\ req["w1"].score = 0

\* C25: calculateColorScore is symmetric: the score of a pair of colors is
\* the score of the pair with target and submitted color exchanged.
C25_ScoreSymmetric ==
  \A w \in Workers :
     pc[w] = "ok" => req[w].score = calculateColorScore(req[w].submitted, req[w].target)

C25_Witness ==
  \E w \in Workers : /\ pc[w] = "ok"
                     /\ req[w].target = <<13, 128, 0>>
                     /\ req[w].submitted = <<128, 13, 255>>
                     /\ req[w].score \in 1..99

\* a migration is committed by the step
Applies(v) == schema'[v] > schema[v]

\* C27: migrations are tracked and never run twice, and run in ascending
\* version order: over any number of RunMigrations runs every version is
\* applied at most once, the versions applied are exactly the ones recorded
\* in schema_migrations, and a migration is applied only when every
\* lower-numbered migration of the directory has been applied.
C27_AppliedOnceInOrder ==
  /\ [](\A v \in MigrationVersions :
           /\ schema[v] <= 1
           /\ (schema[v] = 1 <=> v \in schema_migrations))
  /\ [][\A v \in MigrationVersions :
           Applies(v) => \A u \in MigrationVersions : u < v => schema[u] = 1]_vars

C27_Witness ==
  /\ hist.runs = MaxRuns
  /\ hist.faults = 1
  /\ \A v \in MigrationVersions : schema[v] = 1
  /\ \A p \in Workers : pc[p] = "ok"

\* a step of applyMigration that fails
FailsIn(p) ==
  /\ pc[p] \in {"mig_sql", "mig_record", "mig_commit"}
  /\ pc'[p] = "error"

\* C28: each migration is applied in a transaction: when its SQL, its
\* tracking insert or its commit fails, neither its schema changes nor its
\* schema_migrations row are persisted, RunMigrations returns the error, and
\* the run applies no later migration (it has ended: its locals are gone).
C28_FailedMigrationLeavesNothing ==
  /\ [][\A p \in Workers :
           FailsIn(p) => /\ UNCHANGED <<schema, schema_migrations>>
                         /\ req'[p] = EmptyReq]_vars
  /\ [](\A v \in MigrationVersions : schema[v] > 0 <=> v \in schema_migrations)
  /\ [][\A v \in MigrationVersions :
           Applies(v) => \E p \in Workers : pc[p] = "mig_commit" /\ pc'[p] = "mig_loop"]_vars

C28_Witness ==
  /\ hist.faults = 1
  /\ pc["w1"] = "error"
  /\ schema[1] = 1 /\ schema[2] = 0 /\ schema_migrations = {1}
  /\ pc["w2"] = "idle"

\* the fields of an account the settlement awards
Economy(user) == <<user.points, user.level, user.credits>>

\* C29: a step of a submitScore request changes the user's points, credits
\* or level only when the attempt the request admitted has the number of
\* the cap computed by that request; the steps of a request whose attempt
\* has a smaller number leave them unchanged.
C29_Step(w) ==
  (req[w].handler = "submitScore" /\ pc[w] \notin Outcomes /\ pc'[w] # pc[w])
  => LET u == req[w].user_id
     IN  Economy(users'[u]) # Economy(users[u])
         => /\ req[w].attemptNumber > 0
            /\ req[w].attemptNumber = req[w].maxAttempts

C29_EconomyOnlyAtCap == [][\A w \in Workers : C29_Step(w)]_vars

\* with one extra attempt granted the sixth attempt settles, the fifth not
C29_Witness ==
  /\ Len(daily_scores["u1"]) = BaseAttempts + 1
  /\ hist.settled["u1"] = 1
  /\ Economy(users["u1"]) # Economy(InitUser)
  /\ \A w \in Workers : pc[w] \in Outcomes

\* C30: the points a settlement awards are the highest score among the
\* attempts persisted for the user's key when the settlement is applied,
\* whatever the interleaving of the day's submissions.
\* (no admin reset of the key is involved)
C30_Step(w) ==
  (SettlementFires(w) /\ hist.reset_of[req[w].user_id] = 0)
  => LET u == req[w].user_id
     IN  users'[u].points - req[w].user.points = BestOf(daily_scores[u])

C30_AwardIsHighestPersisted == [][\A w \in Workers : C30_Step(w)]_vars

\* C31: every admitted attempt is persisted with the number count + 1, with
\* the RGB of the day's target and with the score calculateColorScore gives
\* for the target and the submitted color; a submission with a component
\* outside 0..255 ends as a bad request in its first step, with the
\* database unchanged, and no row holds such a color.
C31_InsertStep(w) ==
  LET u == req[w].user_id
  IN  (SubmitCreate(w) /\ daily_scores'[u] # daily_scores[u])
      => /\ daily_color # NoColor
         /\ daily_scores'[u] = Append(daily_scores[u],
              [attempt_number |-> Len(daily_scores[u]) + 1,
               score |-> calculateColorScore(daily_color[1], req[w].submitted),
               submitted |-> req[w].submitted,
               target |-> daily_color[1]])
         /\ req[w].attemptCount = Len(daily_scores[u])

C31_RejectStep(w) ==
  /\ (hist'.submits = hist.submits + 1 /\ pc[w] \in Outcomes /\ pc'[w] = "bad_request")
     => (UNCHANGED db /\ req'[w] = EmptyReq)
  /\ (pc[w] \in Outcomes /\ pc'[w] = "sub_today") => ValidRGB(req'[w].submitted)

Responds(w) ==
  /\ req[w].handler = "submitScore"
  /\ pc[w] \in {"sub_friend", "sub_settle"}
  /\ pc'[w] = "ok"

\* C32: in every successful response of submitScore, for requests served one
\* at a time, attemptsLeft is maxAttempts - attemptNumber and lies in
\* 0..maxAttempts-1, maxAttempts is min(10, 5 + the extra attempts the
\* request read), and bestScore is the larger of the score and the best
\* score of the key's earlier attempts.
C32_Step(w) ==
  Responds(w)
  => LET r == req[w]
         rows == daily_scores[r.user_id]
         attemptsLeft == IF pc[w] = "sub_settle" THEN r.attemptsLeft
                         ELSE r.maxAttempts - r.attemptNumber
         previous == SubSeq(rows, 1, Len(rows) - 1)
     IN  /\ attemptsLeft = r.maxAttempts - r.attemptNumber
         /\ attemptsLeft >= 0 /\ attemptsLeft < r.maxAttempts
         /\ r.maxAttempts = Min(HardCap, BaseAttempts + r.extraAttempts)
         /\ r.extraAttempts = ExtraAttempts(r.user_id)
         /\ rows # <<>> /\ rows[Len(rows)].attempt_number = r.attemptNumber
         /\ r.bestScore = Max(r.score, BestOf(previous))

C32_ResponseFields == [][\A w \in Workers : C32_Step(w)]_vars

\* the sixth attempt (one extra attempt granted) scored 10 after a best of 95
C32_Witness ==
  /\ pc["w1"] = "sub_settle"
  /\ req["w1"].maxAttempts = BaseAttempts + 1
  /\ req["w1"].attemptNumber = BaseAttempts + 1
  /\ req["w1"].attemptsLeft = 0
  /\ req["w1"].score = 10
  /\ req["w1"].bestScore = 95

C34_ReportedCapIsEnforcedCap ==
  \A w \in Workers :
     pc[w] = "use_respond" =>
       /\ req[w].total_extra_attempts = ExtraAttempts(req[w].user_id)
          => req[w].max_attempts = CapOf(ExtraAttempts(req[w].user_id))
       /\ req[w].max_attempts = Min(HardCap, BaseAttempts + req[w].total_extra_attempts)

\* C35: whenever no submitScore and no resetUserDailyAttempts request of a
\* user is in flight, the user has a leaderboard entry for the day if and
\* only if the user has at least one persisted attempt.
C35_EntryIffAttempts ==
  \A u \in Users :
     (~SubmitInFlight(u) /\ ~ResetInProgress(u))
     => (daily_leaderboard[u] # NoRow <=> daily_scores[u] # <<>>)

\* the extra attempts of the uses that have decremented a quantity and have
\* not yet made their grant
PendingGrants ==
  LET waiting == {w \in Workers : pc[w] \in {"use_getinv", "use_setmod"}}
      amount == [w \in Workers |->
                   IF w \in waiting /\ shop_items[req[w].item_id].effect_type = "extra_attempt"
                   THEN ExtraAttemptsOf(shop_items[req[w].item_id]) ELSE 0]
  IN  SumOver(amount, Workers)

\* the extra attempts of all successful decrements
DecrementedGrants ==
  LET amount == [i \in InventoryIDs |->
                   user_inventory[i].used_count
                     * ExtraAttemptsOf(shop_items[user_inventory[i].item_id])]
  IN  SumOver(amount, InventoryIDs)

\* C36: under any interleaving of concurrent useItem requests on an
\* inventory row the quantity is never negative, the successful uses never
\* exceed the initial quantity, and every extra-attempt grant of useItem
\* follows exactly one successful decrement of the item's quantity.
C36_UsesWithinQuantity ==
  /\ \A i \in InventoryIDs :
        /\ user_inventory[i].quantity >= 0
        /\ user_inventory[i].used_count <= InitQuantity
        /\ user_inventory[i].quantity + user_inventory[i].used_count = InitQuantity
  /\ hist.granted["u1"] + PendingGrants = DecrementedGrants
  /\ ExtraAttempts("u1") = hist.granted["u1"]

\* two requests passed the stock check of row 1, one UPDATE found no row
C36_Witness ==
  /\ user_inventory[1].quantity = 0
  /\ user_inventory[1].used_count = InitQuantity
  /\ pc["w1"] = "error"
  /\ pc["w2"] = "ok"
  /\ hist.granted["u1"] = InitQuantity

\* C37: respondToFriendRequest changes the status of a friendship only when
\* the authenticated user is its requester or its addressee: the request of
\* any other user leaves the stored status unchanged.
C37_Step(w) ==
  (pc[w] = "fr_update" /\ pc'[w] # pc[w] /\ req[w].friendshipID \in DOMAIN friendships)
  => LET friendship == friendships[req[w].friendshipID]
     IN  (req[w].user_id # friendship.requester_id /\ req[w].user_id # friendship.addressee_id)
         => friendships' = friendships

C37_OnlyMembersChangeStatus == [][\A w \in Workers : C37_Step(w)]_vars

====
